---- MODULE Spec2Model ----
(***************************************************************************)
(* Model of the Bitcoin trend analysis tool: analysis_logic.py (fetch with *)
(* retries, indicator gating, trend classifier, signal detector, 4-year    *)
(* cycle phase, the CLI loop main()) and the dashboard loop of app.py.     *)
(*                                                                         *)
(* Prices and indicator values are integers.  The numeric history of a    *)
(* bar series is not carried bar by bar: a series is described by its     *)
(* length, the position of its most recent missing close, its last close  *)
(* and the values the indicator library (pandas_ta) derives from it at    *)
(* the last two bars.  Strings of the source that are Japanese text are   *)
(* written as ASCII strings with the same distinctions.                   *)
(***************************************************************************)
EXTENDS Integers, Sequences, FiniteSets, TLC

VARIABLES
    \* ---- fetch_data (one call) ----
    retries,        \* the retries argument
    attempt,        \* loop variable of "for attempt in range(retries)"
    last_error,     \* local last_error
    fpc,            \* "idle" | "loop" | "returned"
    fret,           \* the returned pair (df, last_error)
    responses,      \* history: what the venue answered on each attempt
    sleeps,         \* history: every time.sleep of the call, [after, dur]
    \* ---- main() / app.py loop ----
    driver,         \* "none" | "main" | "app"
    mpc,            \* "idle" | "loop" | "fetching" | "done" | "crashed"
    tf_i,           \* index of the current timeframe in TIMEFRAMES
    rows,           \* rows of the summary table
    all_signals,    \* aggregate signal list
    trend_summary,  \* trend label per processed timeframe (a sequence)
    fetched,        \* history: the frame each processed timeframe fetched
    \* ---- direct calls of the pure functions ----
    ppc,            \* "idle" | "frame" | "frame_done" | "year" | "year_done"
    p_df,           \* the value handed to calculate_indicators
    p_tf,           \* timeframe label of the call
    p_frame,        \* calculate_indicators(p_df)
    p_trend,        \* result of analyze_trend
    p_signals,      \* result of detect_signals
    current_year,   \* datetime.now().year
    p_phase         \* result of get_anomaly_phase

fetchVars == <<retries, attempt, last_error, fpc, fret, responses, sleeps>>
mainVars  == <<driver, mpc, tf_i, rows, all_signals, trend_summary, fetched>>
pureVars  == <<ppc, p_df, p_tf, p_frame, p_trend, p_signals, current_year, p_phase>>
vars      == <<fetchVars, mainVars, pureVars>>

----------------------------------------------------------------------------
\* Configuration (analysis_logic.py lines 10-22)

TIMEFRAMES == <<"1M", "1w", "1d", "4h", "1h">>
CYCLE_START_YEAR == 2022
DefaultRetries == 3
MinBars == 200
SMA100Len == 100
SMA200Len == 200

\* Bounds of the model
MaxRetries == 4     \* retries argument ranges over 1..MaxRetries
MaxExtra   == 1     \* series have up to MinBars + MaxExtra bars
YearMin    == 2010  \* current_year ranges over YearMin..YearMin+YearSpan
YearSpan   == 24

----------------------------------------------------------------------------
\* Python values

NaN == -1000000
None == [type |-> "NoneType"]
NoneStr == "None"
isna(x) == x = NaN

\* float comparisons: any comparison with NaN is False
Gt(a, b) == ~isna(a) /\ ~isna(b) /\ a > b
Lt(a, b) == ~isna(a) /\ ~isna(b) /\ a < b
Ge(a, b) == ~isna(a) /\ ~isna(b) /\ a >= b
Le(a, b) == ~isna(a) /\ ~isna(b) /\ a <= b
Sub(a, b) == IF isna(a) \/ isna(b) THEN NaN ELSE a - b
Abs(x) == IF x < 0 THEN -x ELSE x

Ok(v) == [raised |-> FALSE, exc |-> "", val |-> v]
Raise(e) == [raised |-> TRUE, exc |-> e, val |-> <<>>]

----------------------------------------------------------------------------
\* Bar series the venue can return

\* A series: len bars; nanBack = distance from the end of the most recent bar
\* whose close is missing (1 = the last bar, 0 = no close is missing); close =
\* the last close; sma100 .. psig = what pandas_ta derives from the history at
\* the last bar (pmacd, psig: at the bar before it) where it is defined.
Closes     == {1000}
SmaValues  == {999, 1000, 1001}
EmaValues  == {995, 996, 1000}
MacdValues == {-1, 0, 1}
SigValues  == {-2, 0, 2}
NanBacks   == {0, 1, SMA100Len, SMA100Len + 1, SMA200Len, SMA200Len + 1}

EmptyOhlcv ==
    [len |-> 0, nanBack |-> 0, close |-> 1000, sma100 |-> 1000, sma200 |-> 1000,
     ema20 |-> 1000, macd |-> 0, sig |-> 0, pmacd |-> 0, psig |-> 0]

\* a short history: the library is never run on it (calculate_indicators)
ShortSeries(n) == [EmptyOhlcv EXCEPT !.len = n]

LongSeries ==
    { s \in [len : MinBars .. MinBars + MaxExtra, nanBack : NanBacks, close : Closes,
             sma100 : SmaValues, sma200 : SmaValues, ema20 : EmaValues,
             macd : MacdValues, sig : SigValues, pmacd : MacdValues, psig : SigValues] :
        s.nanBack <= s.len }

ShortLens == {1, 2, MinBars - 1}

\* what exchange.fetch_ohlcv does on one attempt: raise, or return a list
VenueError(m) == [raises |-> TRUE, msg |-> m, ohlcv |-> EmptyOhlcv]
VenueBars(s)  == [raises |-> FALSE, msg |-> "", ohlcv |-> s]
ErrMsgs == {"timeout", "rate limit"}
Failed(resp) == resp.raises \/ resp.ohlcv.len = 0

----------------------------------------------------------------------------
\* DataFrame: the columns, and of the last two rows the fields the analysis reads

BaseColumns == {"timestamp", "open", "high", "low", "close", "volume"}
IndicatorColumns ==
    {"SMA7", "SMA25", "SMA100", "SMA200", "EMA20", "MACD", "MACD_Signal", "MACD_Hist"}
LastFields == {"close", "SMA100", "SMA200", "EMA20", "MACD", "MACD_Signal", "MACD_Hist"}
PrevFields == {"MACD", "MACD_Signal", "MACD_Hist"}

LastClose(s) == IF s.nanBack = 1 THEN NaN ELSE s.close

\* pd.DataFrame(ohlcv, columns=[...])
DataFrame(ohlcv) ==
    [type |-> "DataFrame", ohlcv |-> ohlcv, len |-> ohlcv.len, columns |-> BaseColumns,
     last |-> [c \in (IF ohlcv.len >= 1 THEN {"close"} ELSE {}) |-> LastClose(ohlcv)],
     prev |-> [c \in {} |-> NaN]]

\* the pair fetch_data returns, when it is used as one value (app.py load_data)
Tuple(pair) == [type |-> "tuple", items |-> pair]

\* len(x)
PyLen(x) == IF x.type = "tuple" THEN 2 ELSE x.len

\* ta.sma(close, length) at the last bar: the mean of the last `length` closes,
\* undefined when there are fewer bars or one of those closes is missing
SmaLast(s, length, v) ==
    IF s.len >= length /\ (s.nanBack = 0 \/ s.nanBack > length) THEN v ELSE NaN

TaLast(s) ==
    [c \in LastFields |->
        CASE c = "close"       -> LastClose(s)
          [] c = "SMA100"      -> SmaLast(s, SMA100Len, s.sma100)
          [] c = "SMA200"      -> SmaLast(s, SMA200Len, s.sma200)
          [] c = "EMA20"       -> s.ema20
          [] c = "MACD"        -> s.macd
          [] c = "MACD_Signal" -> s.sig
          [] c = "MACD_Hist"   -> Sub(s.macd, s.sig)]

TaPrev(s) ==
    [c \in PrevFields |->
        CASE c = "MACD"        -> s.pmacd
          [] c = "MACD_Signal" -> s.psig
          [] c = "MACD_Hist"   -> Sub(s.pmacd, s.psig)]

\* the 200-bar gate left out
calculate_indicators_Ungated(df) ==
    IF df.type = "NoneType" \/ df.type = "tuple"
    THEN df
    ELSE [df EXCEPT !.columns = @ \cup IndicatorColumns,
                    !.last = TaLast(df.ohlcv),
                    !.prev = TaPrev(df.ohlcv)]

calculate_indicators(df) ==
    IF df.type = "NoneType" \/ PyLen(df) < MinBars
    THEN df
    ELSE [df EXCEPT !.columns = @ \cup IndicatorColumns,
                    !.last = TaLast(df.ohlcv),
                    !.prev = TaPrev(df.ohlcv)]

----------------------------------------------------------------------------
\* analyze_trend

TREND_NA         == "N/A"
TREND_NO_COLUMNS == "insufficient data (>200 bars needed)"
TREND_NAN        == "insufficient data"
TREND_UP         == "up trend"
TREND_DOWN       == "down trend"
TREND_RANGE      == "range / neutral"

\* the comparisons written with >= and <=
analyze_trend_NonStrict(df, timeframe) ==
    IF df.type = "NoneType" THEN Ok(TREND_NA)
    ELSE IF df.type = "tuple" THEN Raise("AttributeError")
    ELSE IF df.len = 0 THEN Ok(TREND_NA)
    ELSE IF "SMA200" \notin df.columns \/ "SMA100" \notin df.columns
         THEN Ok(TREND_NO_COLUMNS)
    ELSE LET close  == df.last["close"]
             sma200 == df.last["SMA200"]
             sma100 == df.last["SMA100"]
         IN  IF isna(sma200) THEN Ok(TREND_NAN)
             ELSE IF Ge(close, sma200) /\ Ge(close, sma100) THEN Ok(TREND_UP)
             ELSE IF Le(close, sma200) /\ Le(close, sma100) THEN Ok(TREND_DOWN)
             ELSE Ok(TREND_RANGE)

analyze_trend(df, timeframe) ==
    IF df.type = "NoneType" THEN Ok(TREND_NA)
    ELSE IF df.type = "tuple" THEN Raise("AttributeError")       \* df.empty
    ELSE IF df.len = 0 THEN Ok(TREND_NA)
    ELSE IF "SMA200" \notin df.columns \/ "SMA100" \notin df.columns
         THEN Ok(TREND_NO_COLUMNS)
    ELSE LET close  == df.last["close"]
             sma200 == df.last["SMA200"]
             sma100 == df.last["SMA100"]
         IN  IF isna(sma200) THEN Ok(TREND_NAN)
             ELSE IF Gt(close, sma200) /\ Gt(close, sma100) THEN Ok(TREND_UP)
             ELSE IF Lt(close, sma200) /\ Lt(close, sma100) THEN Ok(TREND_DOWN)
             ELSE Ok(TREND_RANGE)

----------------------------------------------------------------------------
\* detect_signals

SIG_GC       == "MACD golden cross (low zone)"
SIG_RM_BUY   == "possible return-move buy (price near EMA20 + MACD improving)"
SIG_DC       == "MACD dead cross (high zone)"
SIG_RM_SELL  == "possible return-move sell (price near EMA20 + MACD worsening)"
SignalText(timeframe, msg) == "[" \o timeframe \o "] " \o msg

\* abs(close - ema20) / close < 0.005
IsNearEma20(close, ema20) ==
    IF isna(close) \/ isna(ema20) THEN FALSE
    ELSE IF close > 0 THEN Abs(close - ema20) * 1000 < 5 * close
    ELSE close < 0

\* the reversal test without its sign condition
HistImproving_NoSign(hist, prev_hist) == Gt(hist, prev_hist)
HistImproving(hist, prev_hist) == Gt(hist, prev_hist) /\ Lt(hist, 0)
HistDeteriorating(hist, prev_hist) == Lt(hist, prev_hist) /\ Gt(hist, 0)

DetectOnRows(last_row, prev_row, timeframe) ==
    LET close == last_row["close"]
        ema20 == last_row["EMA20"]
        is_near_ema20 == IsNearEma20(close, ema20)
        macd == last_row["MACD"]
        signal == last_row["MACD_Signal"]
        hist == last_row["MACD_Hist"]
        prev_hist == prev_row["MACD_Hist"]
        is_gc == Le(prev_row["MACD"], prev_row["MACD_Signal"]) /\ Gt(macd, signal)
        is_dc == Ge(prev_row["MACD"], prev_row["MACD_Signal"]) /\ Lt(macd, signal)
        hist_improving == HistImproving(hist, prev_hist)
        hist_deteriorating == HistDeteriorating(hist, prev_hist)
        s1 == IF Lt(macd, 0) /\ is_gc
              THEN <<SignalText(timeframe, SIG_GC)>> ELSE <<>>
        s2 == IF Lt(macd, 0) /\ is_near_ema20 /\ hist_improving
              THEN <<SignalText(timeframe, SIG_RM_BUY)>> ELSE <<>>
        s3 == IF Gt(macd, 0) /\ is_dc
              THEN <<SignalText(timeframe, SIG_DC)>> ELSE <<>>
        s4 == IF Gt(macd, 0) /\ is_near_ema20 /\ hist_deteriorating
              THEN <<SignalText(timeframe, SIG_RM_SELL)>> ELSE <<>>
    IN  s1 \o s2 \o s3 \o s4

detect_signals(df, timeframe) ==
    IF df.type = "NoneType" THEN Ok(<<>>)
    ELSE IF df.type = "tuple" THEN Raise("AttributeError")       \* df.iloc
    ELSE IF df.len < 1 THEN Raise("IndexError")                  \* df.iloc[-1]
    ELSE IF df.len < 2 THEN Raise("IndexError")                  \* df.iloc[-2]
    ELSE IF "EMA20" \notin df.columns THEN Ok(<<>>)
    ELSE IF "MACD" \notin df.columns THEN Ok(<<>>)
    ELSE Ok(DetectOnRows(df.last, df.prev, timeframe))

----------------------------------------------------------------------------
\* get_anomaly_phase

PHASE_DOWN_CORRECTION == "down (correction year)"
PHASE_DOWN_BOTTOM     == "down (bottoming year)"
PhaseUp(pos)          == "up (Year " \o ToString(pos) \o ")"
BIAS_SHORT            == "short (sell) preferred"
BIAS_LONG             == "long (buy) preferred"

\* the remainder truncated toward zero (negative before the reference year)
CyclePosition_Truncated(year) ==
    IF year >= CYCLE_START_YEAR
    THEN (year - CYCLE_START_YEAR) % 4
    ELSE -((CYCLE_START_YEAR - year) % 4)
CyclePosition(year) == (year - CYCLE_START_YEAR) % 4

get_anomaly_phase(year) ==
    LET cycle_position == CyclePosition(year)
    IN  IF cycle_position = 0 /\ year # CYCLE_START_YEAR
        THEN [phase |-> PHASE_DOWN_CORRECTION, bias |-> BIAS_SHORT]
        ELSE IF cycle_position = 0 /\ year = CYCLE_START_YEAR
        THEN [phase |-> PHASE_DOWN_BOTTOM, bias |-> BIAS_SHORT]
        ELSE [phase |-> PhaseUp(cycle_position), bias |-> BIAS_LONG]

----------------------------------------------------------------------------
\* fetch_data(exchange, symbol, timeframe, limit, retries)

ERR_UNKNOWN == "Unknown error"
ERR_ZERO_BARS == "Exchange returned 0 bars"
EmptySleep == 1

\* the loop written as range(retries - 1)
InRange_OffByOne(a, r) == a + 1 < r
\* for attempt in range(retries)
InRange(a, r) == a < r
\* the emptiness check left out
IsEmptyResult_Never(ohlcv) == FALSE
\* not ohlcv or len(ohlcv) == 0
IsEmptyResult(ohlcv) == ohlcv.len = 0
\* time.sleep(1 * (attempt + 1))
ErrorSleep(a) == 1 * (a + 1)

NoReturn == [df |-> None, err |-> NoneStr]

\* entry of the call: last_error = "Unknown error", the loop starts
FetchEnter(r) ==
    /\ retries' = r
    /\ attempt' = 0
    /\ last_error' = ERR_UNKNOWN
    /\ fpc' = "loop"
    /\ fret' = NoReturn
    /\ responses' = <<>>
    /\ sleeps' = <<>>

\* one iteration of the loop, the venue answering resp
FetchAttempt(resp) ==
    /\ fpc = "loop"
    /\ InRange(attempt, retries)
    /\ responses' = Append(responses, resp)
    /\ IF resp.raises
       THEN /\ last_error' = resp.msg
            /\ sleeps' = Append(sleeps, [after |-> attempt + 1, dur |-> ErrorSleep(attempt)])
            /\ attempt' = attempt + 1
            /\ UNCHANGED <<fpc, fret>>
       ELSE IF IsEmptyResult(resp.ohlcv)
       THEN /\ last_error' = ERR_ZERO_BARS
            /\ sleeps' = Append(sleeps, [after |-> attempt + 1, dur |-> EmptySleep])
            /\ attempt' = attempt + 1
            /\ UNCHANGED <<fpc, fret>>
       ELSE /\ fret' = [df |-> DataFrame(resp.ohlcv), err |-> NoneStr]
            /\ fpc' = "returned"
            /\ UNCHANGED <<last_error, sleeps, attempt>>
    /\ UNCHANGED retries

\* the loop is exhausted: return None, last_error
FetchExhausted ==
    /\ fpc = "loop"
    /\ ~InRange(attempt, retries)
    /\ fret' = [df |-> None, err |-> last_error]
    /\ fpc' = "returned"
    /\ UNCHANGED <<retries, attempt, last_error, responses, sleeps>>

\* ---- a single call of fetch_data, for every retries >= 1 ----

FetchSeries == {ShortSeries(n) : n \in {1, MinBars}}
FetchResponses ==
    {VenueError(m) : m \in ErrMsgs} \cup {VenueBars(EmptyOhlcv)}
        \cup {VenueBars(s) : s \in FetchSeries}

MainIdle ==
    /\ driver = "none" /\ mpc = "idle" /\ tf_i = 0 /\ rows = <<>>
    /\ all_signals = <<>> /\ trend_summary = <<>> /\ fetched = <<>>
PureIdle ==
    /\ ppc = "idle" /\ p_df = None /\ p_tf = "" /\ p_frame = None
    /\ p_trend = Ok("") /\ p_signals = Ok(<<>>)
    /\ current_year = CYCLE_START_YEAR /\ p_phase = [phase |-> "", bias |-> ""]

FetchInit ==
    /\ retries \in 1 .. MaxRetries
    /\ attempt = 0
    /\ last_error = ERR_UNKNOWN
    /\ fpc = "loop"
    /\ fret = NoReturn
    /\ responses = <<>>
    /\ sleeps = <<>>
    /\ MainIdle
    /\ PureIdle

FetchStep == \E resp \in FetchResponses : FetchAttempt(resp)

FetchNext ==
    \/ FetchStep /\ UNCHANGED <<mainVars, pureVars>>
    \/ FetchExhausted /\ UNCHANGED <<mainVars, pureVars>>

SpecFetch == FetchInit /\ [][FetchNext]_vars

----------------------------------------------------------------------------
\* main() of analysis_logic.py and the timeframe loop of app.py

\* f"{x:.2f}"
Fmt2(x) == IF isna(x) THEN "nan" ELSE ToString(x) \o ".00"
\* the new signals put in front
Extend_Prepend(list, more) == more \o list
\* list.extend
Extend(list, more) == list \o more
\* d[key] = value
DictSet(d, key, value) == (key :> value) @@ d

FetchIdle ==
    /\ retries = DefaultRetries /\ attempt = 0 /\ last_error = ERR_UNKNOWN
    /\ fpc = "idle" /\ fret = NoReturn /\ responses = <<>> /\ sleeps = <<>>

\* the frame of fetch_data is gone once its result is bound
FetchLeave ==
    /\ retries' = DefaultRetries /\ attempt' = 0 /\ last_error' = ERR_UNKNOWN
    /\ fpc' = "idle" /\ fret' = NoReturn /\ responses' = <<>> /\ sleeps' = <<>>

\* for tf_key, tf_val in TIMEFRAMES.items(): df, error = fetch_data(...)
\* (app.py: load_data(...) calls logic.fetch_data the same way)
CallFetch ==
    /\ mpc = "loop"
    /\ tf_i <= Len(TIMEFRAMES)
    /\ FetchEnter(DefaultRetries)
    /\ mpc' = "fetching"
    /\ UNCHANGED <<driver, tf_i, rows, all_signals, trend_summary, fetched>>

\* rows.append([tf_key, last_price, trend, f"{sma200:.2f}", f"{macd_val:.2f}"])
MainRow(df, tf_key, trend) ==
    LET last_price == df.last["close"]
        sma200 == IF "SMA200" \in df.columns /\ ~isna(df.last["SMA200"])
                  THEN df.last["SMA200"] ELSE 0
        macd_val == IF "MACD" \in df.columns /\ ~isna(df.last["MACD"])
                    THEN df.last["MACD"] ELSE 0
    IN  <<tf_key, last_price, trend, Fmt2(sma200), Fmt2(macd_val)>>

\* body of the loop of main() after fetch_data returned (the pacing
\* time.sleep(0.5) that ends it changes nothing the model carries)
MainProcess ==
    /\ driver = "main"
    /\ mpc = "fetching"
    /\ fpc = "returned"
    /\ LET tf_key == TIMEFRAMES[tf_i]
           df0 == fret.df
           df == calculate_indicators(df0)
           trend == analyze_trend(df, tf_key)
           signals == detect_signals(df, tf_key)
       IN  /\ fetched' = Append(fetched, df0)
           /\ IF df0.type # "NoneType"
              THEN IF trend.raised
                   THEN /\ mpc' = "crashed"
                        /\ UNCHANGED <<tf_i, rows, all_signals, trend_summary>>
                   ELSE IF signals.raised
                   THEN /\ trend_summary' = DictSet(trend_summary, tf_key, trend.val)
                        /\ mpc' = "crashed"
                        /\ UNCHANGED <<tf_i, rows, all_signals>>
                   ELSE /\ trend_summary' = DictSet(trend_summary, tf_key, trend.val)
                        /\ all_signals' = Extend(all_signals, signals.val)
                        /\ rows' = Append(rows, MainRow(df, tf_key, trend.val))
                        /\ tf_i' = tf_i + 1
                        /\ mpc' = "loop"
              ELSE /\ tf_i' = tf_i + 1       \* print(f"Error fetching ...")
                   /\ mpc' = "loop"
                   /\ UNCHANGED <<rows, all_signals, trend_summary>>
    /\ FetchLeave
    /\ UNCHANGED driver

\* app.py: rows.append([tf_key, f"{price:,.2f}", trend, ..., ...])
AppRow(df, tf_key, trend) ==
    IF df.type = "DataFrame" /\ df.len > 0
    THEN LET price == df.last["close"]
             sma200 == IF "SMA200" \in DOMAIN df.last THEN df.last["SMA200"] ELSE 0
             macd == IF "MACD" \in DOMAIN df.last THEN df.last["MACD"] ELSE 0
         IN  <<tf_key, Fmt2(price), trend,
               IF isna(sma200) THEN "N/A" ELSE Fmt2(sma200),
               IF isna(macd) THEN "N/A" ELSE Fmt2(macd)>>
    ELSE <<tf_key, "N/A", "Error", "N/A", "N/A">>

\* body of the loop of app.py: df is bound to the whole pair load_data returns
AppProcess ==
    /\ driver = "app"
    /\ mpc = "fetching"
    /\ fpc = "returned"
    /\ LET tf_key == TIMEFRAMES[tf_i]
           df0 == Tuple(fret)
           df == calculate_indicators(df0)
           trend == analyze_trend(df, tf_key)
           signals == detect_signals(df, tf_key)
       IN  /\ fetched' = Append(fetched, fret.df)
           /\ IF trend.raised \/ signals.raised
              THEN /\ mpc' = "crashed"
                   /\ UNCHANGED <<tf_i, rows, all_signals, trend_summary>>
              ELSE /\ all_signals' = Extend(all_signals, signals.val)
                   /\ rows' = Append(rows, AppRow(df, tf_key, trend.val))
                   /\ tf_i' = tf_i + 1
                   /\ mpc' = "loop"
                   /\ UNCHANGED trend_summary
    /\ FetchLeave
    /\ UNCHANGED driver

\* the loop is over: summary_df = pd.DataFrame(rows, ...), the signals are shown
Summary ==
    /\ mpc = "loop"
    /\ tf_i > Len(TIMEFRAMES)
    /\ mpc' = "done"
    /\ UNCHANGED <<driver, tf_i, rows, all_signals, trend_summary, fetched>>
    /\ UNCHANGED fetchVars

\* what the venue answers during a run
UpDeadCross ==
    [len |-> MinBars, nanBack |-> 0, close |-> 1000, sma100 |-> 999, sma200 |-> 999,
     ema20 |-> 995, macd |-> 1, sig |-> 2, pmacd |-> 1, psig |-> 0]
DownGoldenCross ==
    [len |-> MinBars, nanBack |-> 0, close |-> 1000, sma100 |-> 1001, sma200 |-> 1001,
     ema20 |-> 995, macd |-> -1, sig |-> -2, pmacd |-> -1, psig |-> 0]
RangeMissingClose ==
    [len |-> MinBars + 1, nanBack |-> SMA100Len + 1, close |-> 1000, sma100 |-> 1000,
     sma200 |-> 1000, ema20 |-> 1000, macd |-> 0, sig |-> 0, pmacd |-> 0, psig |-> 0]
MainSeries ==
    {ShortSeries(n) : n \in ShortLens} \cup {UpDeadCross, DownGoldenCross, RangeMissingClose}
MainResponses ==
    {VenueError("timeout"), VenueBars(EmptyOhlcv)} \cup {VenueBars(s) : s \in MainSeries}

Init ==
    /\ driver \in {"main", "app"}
    /\ mpc = "loop"
    /\ tf_i = 1
    /\ rows = <<>>
    /\ all_signals = <<>>
    /\ trend_summary = <<>>
    /\ fetched = <<>>
    /\ FetchIdle
    /\ PureIdle

VenueAnswers == \E resp \in MainResponses : FetchAttempt(resp)

Next ==
    \/ CallFetch /\ UNCHANGED pureVars
    \/ VenueAnswers /\ UNCHANGED <<mainVars, pureVars>>
    \/ FetchExhausted /\ UNCHANGED <<mainVars, pureVars>>
    \/ MainProcess /\ UNCHANGED pureVars
    \/ AppProcess /\ UNCHANGED pureVars
    \/ Summary /\ UNCHANGED pureVars

Spec == Init /\ [][Next]_vars

----------------------------------------------------------------------------
\* direct calls: the analysis pipeline on one frame, the cycle phase of one year

PureSeries == {ShortSeries(n) : n \in {0} \cup ShortLens} \cup LongSeries
PureTimeframes == {"1d"}

PureInit ==
    /\ \/ /\ ppc = "frame"
          /\ p_df \in {None} \cup {DataFrame(s) : s \in PureSeries}
          /\ p_tf \in PureTimeframes
          /\ current_year = CYCLE_START_YEAR
       \/ /\ ppc = "year"
          /\ p_df = None
          /\ p_tf = ""
          /\ current_year \in YearMin .. YearMin + YearSpan
    /\ p_frame = None
    /\ p_trend = Ok("")
    /\ p_signals = Ok(<<>>)
    /\ p_phase = [phase |-> "", bias |-> ""]
    /\ FetchIdle
    /\ MainIdle

\* df = calculate_indicators(df); analyze_trend(df, tf); detect_signals(df, tf)
Analyze ==
    /\ ppc = "frame"
    /\ p_frame' = calculate_indicators(p_df)
    /\ p_trend' = analyze_trend(calculate_indicators(p_df), p_tf)
    /\ p_signals' = detect_signals(calculate_indicators(p_df), p_tf)
    /\ ppc' = "frame_done"
    /\ UNCHANGED <<p_df, p_tf, current_year, p_phase>>

\* phase, bias = get_anomaly_phase(), the clock reading current_year
Phase ==
    /\ ppc = "year"
    /\ p_phase' = get_anomaly_phase(current_year)
    /\ ppc' = "year_done"
    /\ UNCHANGED <<p_df, p_tf, p_frame, p_trend, p_signals, current_year>>

PureNext ==
    \/ Analyze /\ UNCHANGED <<fetchVars, mainVars>>
    \/ Phase /\ UNCHANGED <<fetchVars, mainVars>>

SpecPure == PureInit /\ [][PureNext]_vars

----------------------------------------------------------------------------
\* Properties of fetch_data (SpecFetch)

Calls == Len(responses)
FailedAttempts == {k \in 1 .. Len(responses) : Failed(responses[k])}
SleepsAfter(k) == SelectSeq(sleeps, LAMBDA e : e.after = k)
Describe(resp) == IF resp.raises THEN resp.msg ELSE ERR_ZERO_BARS

\* C1: once fetch_data has returned: if the venue failed on each of the first
\* retries-1 attempts and succeeded on attempt retries, the result is a frame
\* of at least one bar (the bars of that last answer); if the venue failed on
\* every attempt made, the result is a Failure and the venue was called exactly
\* retries times; the venue is never called more than retries times.
C1_RetriesExact ==
    /\ Calls <= retries
    /\ fpc = "returned" =>
        /\ ( /\ Calls = retries
             /\ \A k \in 1 .. retries - 1 : Failed(responses[k])
             /\ ~Failed(responses[retries]) )
           => ( /\ fret.df.type = "DataFrame"
                /\ fret.df.len >= 1
                /\ fret.df.ohlcv = responses[retries].ohlcv
                /\ fret.err = NoneStr )
        /\ (\A k \in 1 .. Calls : Failed(responses[k]))
           => (fret.df = None /\ Calls = retries)

\* C1 witness: retries = 3, two failures, then a success on the third attempt
C1_Witness ==
    /\ fpc = "returned"
    /\ retries = DefaultRetries
    /\ Calls = DefaultRetries
    /\ FailedAttempts = {1, 2}
    /\ fret.df.type = "DataFrame"

\* C2 (as claimed): every failed attempt k < retries, an error or an empty
\* result alike, is followed by one wait of exactly k; the failed final
\* attempt (k = retries) is followed by no wait.
C2_LinearBackoff ==
    \A k \in FailedAttempts :
        IF k < retries
        THEN SleepsAfter(k) = <<[after |-> k, dur |-> k]>>
        ELSE SleepsAfter(k) = <<>>

\* C3: fetch_data is either still in its loop or has returned (no exception
\* leaves it); every failure, an empty result included, consumed one attempt;
\* and a returned result is either a frame of at least one bar with no error,
\* or a Failure whose error is the description of the last failed attempt.
C3_TwoOutcomes ==
    /\ fpc \in {"loop", "returned"}
    /\ attempt = Cardinality(FailedAttempts)
    /\ fpc = "returned" =>
        \/ /\ fret.df.type = "DataFrame"
           /\ fret.df.len >= 1
           /\ fret.err = NoneStr
        \/ /\ fret.df = None
           /\ Calls >= 1
           /\ Failed(responses[Calls])
           /\ fret.err = Describe(responses[Calls])

\* C3 witness: a Failure whose last attempt was an empty result, after an
\* earlier attempt that raised
C3_Witness ==
    /\ fpc = "returned"
    /\ fret.df = None
    /\ fret.err = ERR_ZERO_BARS
    /\ \E k \in 1 .. Calls : responses[k].raises

----------------------------------------------------------------------------
\* Properties of the timeframe loop (Spec)

Processed == 1 .. Len(fetched)
FrameOf(i) == calculate_indicators(fetched[i])
SignalsOf(i) == detect_signals(FrameOf(i), TIMEFRAMES[i])

\* C4 (as claimed), for a run that went through every timeframe: whatever
\* fetches failed, the summary has exactly one row per configured timeframe,
\* in order, a timeframe whose fetch failed being shown by an explicit
\* error / N/A row.
C4_OneRowPerTimeframe ==
    mpc = "done" =>
        /\ Len(fetched) = Len(TIMEFRAMES)
        /\ Len(rows) = Len(TIMEFRAMES)
        /\ \A i \in 1 .. Len(TIMEFRAMES) :
            /\ rows[i][1] = TIMEFRAMES[i]
            /\ fetched[i] = None => rows[i][3] \in {"Error", TREND_NA}

\* C5 (as claimed): for every frame main() hands to detect_signals that has
\* fewer than 2 bars or lacks the EMA20 / MACD fields (every successful fetch
\* of fewer than 200 bars), detect_signals returns the empty list and raises
\* nothing.
C5_EmptyOnShortFrames ==
    driver = "main" =>
        \A i \in Processed :
            ( /\ fetched[i].type = "DataFrame"
              /\ \/ FrameOf(i).len < 2
                 \/ "EMA20" \notin FrameOf(i).columns
                 \/ "MACD" \notin FrameOf(i).columns )
            => SignalsOf(i) = Ok(<<>>)

RuleTexts == <<SIG_GC, SIG_RM_BUY, SIG_DC, SIG_RM_SELL>>
RuleIndex(sig, timeframe) ==
    CHOOSE r \in 1 .. 4 : sig = SignalText(timeframe, RuleTexts[r])
InRuleOrder(list, timeframe) ==
    /\ \A j \in 1 .. Len(list) : \E r \in 1 .. 4 : list[j] = SignalText(timeframe, RuleTexts[r])
    /\ \A j \in 1 .. Len(list) - 1 :
        RuleIndex(list[j], timeframe) < RuleIndex(list[j + 1], timeframe)

RECURSIVE ExpectedSignals(_)
ExpectedSignals(n) ==
    IF n = 0 THEN <<>>
    ELSE ExpectedSignals(n - 1) \o
         (IF fetched[n].type = "DataFrame" /\ ~SignalsOf(n).raised
          THEN SignalsOf(n).val ELSE <<>>)

\* C10: after a run of main(), all_signals is the concatenation, in the order
\* of TIMEFRAMES, of detect_signals' result for each timeframe that was fetched
\* (a failed timeframe adds nothing), and each timeframe's own signals are in
\* the rule order golden cross, return-move buy, dead cross, return-move sell.
C10_SignalOrder ==
    (driver = "main" /\ mpc = "done") =>
        /\ Len(fetched) = Len(TIMEFRAMES)
        /\ all_signals = ExpectedSignals(Len(fetched))
        /\ \A i \in Processed :
            fetched[i].type = "DataFrame" =>
                InRuleOrder(SignalsOf(i).val, TIMEFRAMES[i])

\* C10 witness: a finished run whose first timeframe failed and in which two
\* later timeframes each contributed a different signal
C10_Witness ==
    /\ driver = "main"
    /\ mpc = "done"
    /\ fetched[1] = None
    /\ Len(all_signals) >= 2
    /\ all_signals[1] # all_signals[2]

----------------------------------------------------------------------------
\* Properties of the pure functions (SpecPure)

Unavailable(f, c) == c \notin f.columns \/ isna(f.last[c])

TrendOf(label) ==
    CASE label = TREND_NA -> "NotAvailable"
      [] label \in {TREND_NO_COLUMNS, TREND_NAN} -> "InsufficientData"
      [] label = TREND_UP -> "Up"
      [] label = TREND_DOWN -> "Down"
      [] label = TREND_RANGE -> "Range"
      [] OTHER -> "?"

ClaimedTrend(f) ==
    IF f.len = 0 THEN "NotAvailable"
    ELSE IF Unavailable(f, "SMA200") \/ Unavailable(f, "SMA100") THEN "InsufficientData"
    ELSE IF f.last["close"] > f.last["SMA200"] /\ f.last["close"] > f.last["SMA100"]
         THEN "Up"
    ELSE IF f.last["close"] < f.last["SMA200"] /\ f.last["close"] < f.last["SMA100"]
         THEN "Down"
    ELSE "Range"

SignalCount(s, timeframe) ==
    Len(detect_signals(calculate_indicators(DataFrame(s)), timeframe).val)

\* C8 (as claimed): the four emission rules are independent and not mutually
\* exclusive: over frames whose histogram is macd minus signal, a call can
\* emit any number of signals from 0 to 4 (once detect_signals has run on a
\* frame that has the MACD fields: for each n in 0..4 some such frame makes
\* the call emit n signals).
C8_AnyCountUpToFour ==
    ( /\ ppc = "frame_done"
      /\ p_frame.type = "DataFrame"
      /\ "MACD" \in p_frame.columns )
    => \A n \in 0 .. 4 : \E s \in LongSeries : SignalCount(s, p_tf) = n

\* C8 (amended): over frames whose histogram is macd minus signal, a call of
\* detect_signals that returns emits at most one signal, that signal being
\* one of the four rules' messages for the call's timeframe.
C8_AtMostOneSignal ==
    (ppc = "frame_done" /\ ~p_signals.raised) =>
        /\ Len(p_signals.val) <= 1
        /\ InRuleOrder(p_signals.val, p_tf)

\* C8 witness: a call on a full frame that emits the return-move sell signal
C8_Witness ==
    /\ ppc = "frame_done"
    /\ ~p_signals.raised
    /\ p_signals.val = <<SignalText(p_tf, SIG_RM_SELL)>>

\* C6 (as claimed): the cycle phase of year y, label and bias, is the cycle
\* phase of year y + 4.
C6_PeriodicLabelAndBias ==
    ppc = "year_done" => p_phase = get_anomaly_phase(current_year + 4)

\* C6 (amended): the bias of year y is the bias of year y + 4, and so is the
\* label unless y or y + 4 is the reference year 2022; position 0 of the
\* non-negative modulo has the short-preferred bias and positions 1, 2, 3 the
\* long-preferred bias.
C6_PeriodicBias ==
    ppc = "year_done" =>
        LET pos == (current_year - CYCLE_START_YEAR) % 4
            next == get_anomaly_phase(current_year + 4)
        IN  /\ p_phase.bias = next.bias
            /\ (current_year # CYCLE_START_YEAR /\ current_year + 4 # CYCLE_START_YEAR)
               => p_phase.phase = next.phase
            /\ pos = 0 => p_phase.bias = BIAS_SHORT
            /\ pos \in {1, 2, 3} => p_phase.bias = BIAS_LONG /\ p_phase.phase = PhaseUp(pos)

\* C6 witness: a year before the reference year, at position 3
C6_Witness ==
    /\ ppc = "year_done"
    /\ current_year < CYCLE_START_YEAR
    /\ (current_year - CYCLE_START_YEAR) % 4 = 3
    /\ p_phase.bias = BIAS_LONG

====
